---- MODULE Spec2Model ----
(***************************************************************************)
(* Model of app.py, the Streamlit fake-news detector: cached model         *)
(* loading, the "Analyze Content" handler, the correction lookup, the      *)
(* per-session store (st.session_state) and its JSON / CSV export.         *)
(*                                                                         *)
(* Python values are tagged tuples: <<"None">>, <<"str", s>>,              *)
(* <<"int", n>>, <<"float", num, den>> (the rational num/den),             *)
(* <<"list", seq>> and <<"dict", items>> with items a sequence of          *)
(* <<key, value>> pairs in insertion order.  The text typed by the user    *)
(* is a sequence of one-character strings, so that lower(), strip(),       *)
(* split() and the substring test are computed character by character.     *)
(***************************************************************************)
EXTENDS Integers, Sequences, FiniteSets, TLC

VARIABLES
    vectorizer_file,        \* state of vectorizer.jb on disk: "ok" | "missing" | "corrupt"
    model_file,             \* state of lr_model.jb on disk
    cache,                  \* st.cache_resource entry of load_models: "empty" | "loaded"
    FAKE_NEWS_CORRECTIONS,  \* module-level dict, as its items() in insertion order
    collected_data,         \* st.session_state.collected_data, one list per session
    analysis_history,       \* st.session_state.analysis_history, one list per session
    now,                    \* the wall clock, in ticks
    files,                  \* collected_data_<second>.json files of the working directory
    pc,                     \* position of each session's script run
    filename,               \* local variable filename of a run inside the JSON export
    view,                   \* what the latest script run of each session did and showed
    news_text,              \* argument of a direct find_correction call
    correction              \* its result

vars == <<vectorizer_file, model_file, cache, FAKE_NEWS_CORRECTIONS, collected_data,
          analysis_history, now, files, pc, filename, view, news_text, correction>>

----------------------------------------------------------------------------
(* Bounds *)

MaxRecords == 2        \* analyses recorded per session
MaxTime == 1           \* last tick of the clock
TicksPerSecond == 1    \* clock ticks inside one second of strftime('%Y%m%d_%H%M%S')
MaxPieces == 2         \* fragments concatenated into an input of find_correction

Sessions == {"s1", "s2"}

----------------------------------------------------------------------------
(* Python values *)

PyNone == <<"None">>
PyStr(s) == <<"str", s>>
PyInt(n) == <<"int", n>>
PyFloat(num, den) == <<"float", num, den>>
PyList(seq) == <<"list", seq>>
PyDict(items) == <<"dict", items>>

Keys(d) == [i \in 1..Len(d[2]) |-> d[2][i][1]]

Get(d, k) == d[2][CHOOSE i \in 1..Len(d[2]) : d[2][i][1] = k][2]

Max(a, b) == IF a >= b THEN a ELSE b

----------------------------------------------------------------------------
(* Text *)

UpperCase == <<"A","B","C","D","E","F","G","H","I","J","K","L","M",
               "N","O","P","Q","R","S","T","U","V","W","X","Y","Z">>
LowerCase == <<"a","b","c","d","e","f","g","h","i","j","k","l","m",
               "n","o","p","q","r","s","t","u","v","w","x","y","z">>

Whitespace == {" ", "\t", "\n"}

LowerChar(c) ==
    IF \E i \in 1..Len(UpperCase) : UpperCase[i] = c
    THEN LowerCase[CHOOSE i \in 1..Len(UpperCase) : UpperCase[i] = c]
    ELSE c

lower(text) == [i \in 1..Len(text) |-> LowerChar(text[i])]

RECURSIVE lstrip(_)
lstrip(text) ==
    IF text # <<>> /\ Head(text) \in Whitespace THEN lstrip(Tail(text)) ELSE text

RECURSIVE rstrip(_)
rstrip(text) ==
    IF text # <<>> /\ text[Len(text)] \in Whitespace
    THEN rstrip(SubSeq(text, 1, Len(text) - 1))
    ELSE text

strip(text) == rstrip(lstrip(text))

\* pattern in text
Contains(text, pattern) ==
    \E i \in 0..(Len(text) - Len(pattern)) :
        \A j \in 1..Len(pattern) : text[i + j] = pattern[j]

\* len(text.split()): the number of maximal runs of non-whitespace characters
split_count(text) ==
    Cardinality({i \in 1..Len(text) :
        /\ text[i] \notin Whitespace
        /\ (i = 1 \/ text[i - 1] \in Whitespace)})

----------------------------------------------------------------------------
(* Correction lookup *)

CouncilPattern == <<"c","o","u","n","c","i","l"," ","s","t","a","f","f"," ","t","o","l","d"," ","h","o","w"," ","t","o"," ","a","d","d","r","e","s","s"," ","f","a","k","e"," ","n","e","w","s"," ","o","n","l","i","n","e">>

TynesidePattern == <<"s","t","a","f","f"," ","a","t"," ","s","o","u","t","h"," ","t","y","n","e","s","i","d","e"," ","c","o","u","n","c","i","l"," ","a","r","e"," ","b","e","i","n","g"," ","a","d","v","i","s","e","d"," ","w","h","e","n"," ","t","o"," ","h","i","d","e"," ","o","r"," ","c","o","r","r","e","c","t"," ","m","i","s","i","n","f","o","r","m","a","t","i","o","n">>

VaccinePattern == <<"v","a","c","c","i","n","e"," ","c","a","u","s","e","s"," ","a","u","t","i","s","m">>

FiveGPattern == <<"5","g"," ","c","a","u","s","e","s"," ","c","o","r","o","n","a","v","i","r","u","s">>

CouncilCorrection == PyStr("South Tyneside Council conducted a training session on identifying and responding to misinformation, not on hiding or correcting information. The session was about media literacy and helping staff recognize false information to better serve the public.")

VaccineCorrection == PyStr("Extensive scientific research has conclusively proven that vaccines do not cause autism. The original study claiming this link was fraudulent and has been retracted. Vaccines are safe and effective.")

FiveGCorrection == PyStr("There is no scientific evidence linking 5G technology to COVID-19. Viruses cannot travel on radio waves or mobile networks. COVID-19 is caused by the SARS-CoV-2 virus and spreads through respiratory droplets.")

\* the dict literal, as (fake_pattern, correction_data) items in insertion order
CorrectionTable ==
    << <<CouncilPattern,  [correct_news |-> CouncilCorrection]>>,
       <<TynesidePattern, [correct_news |-> CouncilCorrection]>>,
       <<VaccinePattern,  [correct_news |-> VaccineCorrection]>>,
       <<FiveGPattern,    [correct_news |-> FiveGCorrection]>> >>

\* the for loop of find_correction from item i on
RECURSIVE ScanLast(_, _, _)
ScanLast(items, i, normalized_text) ==
    IF i < 1 THEN PyNone
    ELSE IF Contains(normalized_text, items[i][1])
         THEN items[i][2].correct_news
         ELSE ScanLast(items, i - 1, normalized_text)

ScanReversed(items, i, normalized_text) == ScanLast(items, Len(items), normalized_text)

RECURSIVE Scan(_, _, _)
Scan(items, i, normalized_text) ==
    IF i > Len(items) THEN PyNone
    ELSE IF Contains(normalized_text, items[i][1])
         THEN items[i][2].correct_news
         ELSE Scan(items, i + 1, normalized_text)

find_correction(text) ==
    LET normalized_text == strip(lower(text))
    IN  Scan(FAKE_NEWS_CORRECTIONS, 1, normalized_text)

----------------------------------------------------------------------------
(* Model loading *)

FileStates == {"ok", "missing", "corrupt"}

\* the body of load_models with the model file's existence check left out
load_models_unchecked ==
    IF vectorizer_file = "missing" THEN "stop"
    ELSE IF vectorizer_file = "corrupt" THEN "stop"
    ELSE "ok"

\* the body of load_models: "ok" when it returns (vectorizer, model),
\* "stop" when it ends the script run through st.stop()
load_models ==
    IF vectorizer_file = "missing" THEN "stop"
    ELSE IF model_file = "missing" THEN "stop"
    ELSE IF vectorizer_file = "corrupt" \/ model_file = "corrupt" THEN "stop"
    ELSE "ok"

\* vectorizer, model = load_models() under @st.cache_resource: a cached
\* result is returned without running the body
cached_load_models == IF cache = "loaded" THEN "ok" ELSE load_models

\* how many times that call runs the body of load_models
load_attempts == IF cache = "loaded" THEN 0 ELSE 1

----------------------------------------------------------------------------
(* Records *)

\* datetime.now().isoformat()
isoformat(t) == PyStr(<<"iso", t>>)

\* datetime.now().strftime('%Y%m%d_%H%M%S'): the clock truncated to the second
strftime(t) == t \div TicksPerSecond

generate_content_id(content) == PyStr(<<"md5", content>>)

\* the conditional expression of collect_data with the labels swapped
verdict_swapped(prediction) == IF prediction = 1 THEN "Fake" ELSE "Real"

\* "Real" if prediction == 1 else "Fake"
verdict(prediction) == IF prediction = 1 THEN "Real" ELSE "Fake"

collect_data(content, source, metadata, prediction, confidence, t) ==
    PyDict(<< <<"content_id", generate_content_id(content)>>,
              <<"content",    PyStr(content)>>,
              <<"source",     PyStr(source)>>,
              <<"timestamp",  isoformat(t)>>,
              <<"prediction", PyStr(verdict(prediction))>>,
              <<"confidence", confidence>>,
              <<"metadata",   metadata>> >>)

\* the metadata dict literal of the Analyze handler
build_metadata(form, t) ==
    PyDict(<< <<"author",    PyStr(IF form.author # "" THEN form.author ELSE "Unknown")>>,
              <<"url",       PyStr(IF form.url # "" THEN form.url ELSE "Not provided")>>,
              <<"shared_by", PyStr(IF form.shared_by # "" THEN form.shared_by ELSE "Unknown")>>,
              <<"share_count",    PyInt(form.share_count)>>,
              <<"timestamp",      IF form.include_metadata THEN isoformat(t) ELSE PyNone>>,
              <<"content_length", PyInt(Len(form.inputn))>>,
              <<"word_count",     PyInt(split_count(form.inputn))>> >>)

\* the inner try/except with min in place of max
confidence_min(outcome) ==
    IF outcome.proba_ok
    THEN PyFloat((IF outcome.proba[1] <= outcome.proba[2]
                  THEN outcome.proba[1] ELSE outcome.proba[2]) * 100,
                 outcome.proba[1] + outcome.proba[2])
    ELSE PyNone

\* the inner try/except: max(proba[0]) * 100, or None when predict_proba raises;
\* proba[0] is given as the numerators of two fractions over their sum
confidence_of(outcome) ==
    IF outcome.proba_ok
    THEN PyFloat(Max(outcome.proba[1], outcome.proba[2]) * 100,
                 outcome.proba[1] + outcome.proba[2])
    ELSE PyNone

----------------------------------------------------------------------------
(* JSON: the text json.dump writes, as its tokens (the whitespace of         *)
(* indent=2 is left out), and the value json.load rebuilds from them        *)

RECURSIVE json_dumps(_)
RECURSIVE json_elements(_, _)
RECURSIVE json_members(_, _)

json_elements(seq, i) ==
    IF i > Len(seq) THEN <<>>
    ELSE (IF i > 1 THEN << <<",">> >> ELSE <<>>)
         \o json_dumps(seq[i])
         \o json_elements(seq, i + 1)

json_members(items, i) ==
    IF i > Len(items) THEN <<>>
    ELSE (IF i > 1 THEN << <<",">> >> ELSE <<>>)
         \o << <<"string", items[i][1]>>, <<":">> >>
         \o json_dumps(items[i][2])
         \o json_members(items, i + 1)

\* json.dump(obj, f, indent=2)
json_dumps(v) ==
    CASE v[1] = "None"  -> << <<"null">> >>
      [] v[1] = "str"   -> << <<"string", v[2]>> >>
      [] v[1] = "int"   -> << <<"number", "int", v[2]>> >>
      [] v[1] = "float" -> << <<"number", "float", v[2], v[3]>> >>
      [] v[1] = "list"  -> << <<"[">> >> \o json_elements(v[2], 1) \o << <<"]">> >>
      [] v[1] = "dict"  -> << <<"{">> >> \o json_members(v[2], 1) \o << <<"}">> >>

RECURSIVE parse_value(_, _)
RECURSIVE parse_array(_, _, _)
RECURSIVE parse_object(_, _, _)

\* each parser returns <<value, index of the next unread token>>
parse_array(toks, i, acc) ==
    IF toks[i][1] = "]" THEN <<PyList(acc), i + 1>>
    ELSE LET j == IF toks[i][1] = "," THEN i + 1 ELSE i
             r == parse_value(toks, j)
         IN  parse_array(toks, r[2], Append(acc, r[1]))

parse_object(toks, i, acc) ==
    IF toks[i][1] = "}" THEN <<PyDict(acc), i + 1>>
    ELSE LET j == IF toks[i][1] = "," THEN i + 1 ELSE i
             key == toks[j][2]
             r == parse_value(toks, j + 2)
         IN  parse_object(toks, r[2], Append(acc, <<key, r[1]>>))

parse_value(toks, i) ==
    CASE toks[i][1] = "null"   -> <<PyNone, i + 1>>
      [] toks[i][1] = "string" -> <<PyStr(toks[i][2]), i + 1>>
      [] toks[i][1] = "number" ->
            IF toks[i][2] = "int"
            THEN <<PyInt(toks[i][3]), i + 1>>
            ELSE <<PyFloat(toks[i][3], toks[i][4]), i + 1>>
      [] toks[i][1] = "["      -> parse_array(toks, i + 1, <<>>)
      [] toks[i][1] = "{"      -> parse_object(toks, i + 1, <<>>)

\* json.loads(text)
json_loads(toks) == parse_value(toks, 1)[1]

----------------------------------------------------------------------------
(* CSV: pd.DataFrame(list of dicts).to_csv(index=False), as its rows of cells *)

\* the column selection of the Data Preview applied to the exported frame
DataFrameColumnsPreview(data) == <<"content_id", "source", "prediction", "timestamp">>

\* the columns of pd.DataFrame(data): the keys of the dicts, in insertion
\* order; a nested dict is an object held in one column
DataFrameColumns(data) == Keys(data[1])

\* one value written by to_csv: None/NaN is the empty field, a dict its str()
csv_cell(v) ==
    CASE v[1] = "None"  -> <<"empty">>
      [] v[1] = "str"   -> <<"text", v[2]>>
      [] v[1] = "int"   -> <<"int", v[2]>>
      [] v[1] = "float" -> <<"float", v[2], v[3]>>
      [] v[1] = "dict"  -> <<"str()", v>>

to_csv(data) ==
    LET columns == DataFrameColumns(data)
        header == [c \in 1..Len(columns) |-> <<"text", columns[c]>>]
        row(r) == [c \in 1..Len(columns) |-> csv_cell(Get(data[r], columns[c]))]
    IN  <<header>> \o [r \in 1..Len(data) |-> row(r)]

----------------------------------------------------------------------------
(* The widgets of the Detection tab and the black-box model *)

BlankText == <<" "," ">>
FiveGText == <<" ","5","G"," ","C","a","u","s","e","s"," ","C","o","r","o","n","a","v","i","r","u","s","!"," ">>
RainText  == <<"R","a","i","n"," ","t","o","d","a","y">>

\* the values of the widgets when the button is pressed
BlankForm ==
    [inputn |-> BlankText, data_source |-> "News Article", author |-> "", url |-> "",
     shared_by |-> "", share_count |-> 0, include_metadata |-> TRUE]

FiveGForm ==
    [inputn |-> FiveGText, data_source |-> "Twitter/X", author |-> "", url |-> "",
     shared_by |-> "", share_count |-> 3, include_metadata |-> TRUE]

RainForm ==
    [inputn |-> RainText, data_source |-> "News Article", author |-> "alice",
     url |-> "http://example.org/rain", shared_by |-> "bob", share_count |-> 0,
     include_metadata |-> FALSE]

Forms == {BlankForm, FiveGForm}

\* what vectorizer.transform, model.predict and model.predict_proba do in one
\* run: each returns or raises; proba is proba[0] in quarters
Outcomes ==
    { [transform_ok |-> FALSE, predict_ok |-> FALSE, label |-> 0, proba_ok |-> FALSE, proba |-> <<0, 0>>],
      [transform_ok |-> TRUE,  predict_ok |-> FALSE, label |-> 0, proba_ok |-> FALSE, proba |-> <<0, 0>>],
      [transform_ok |-> TRUE,  predict_ok |-> TRUE,  label |-> 1, proba_ok |-> FALSE, proba |-> <<0, 0>>],
      [transform_ok |-> TRUE,  predict_ok |-> TRUE,  label |-> 0, proba_ok |-> FALSE, proba |-> <<0, 0>>],
      [transform_ok |-> TRUE,  predict_ok |-> TRUE,  label |-> 1, proba_ok |-> TRUE,  proba |-> <<1, 3>>],
      [transform_ok |-> TRUE,  predict_ok |-> TRUE,  label |-> 0, proba_ok |-> TRUE,  proba |-> <<3, 1>>] }

Raised == <<"raise">>

InitView ==
    [run |-> "none", load |-> "none", load_attempts |-> 0, calls |-> <<>>, message |-> "none", shown |-> "none",
     entry |-> PyNone, correction |-> PyNone, download |-> <<>>]

\* if inputn.strip(): without the strip
validate_unstripped(inputn) == inputn # <<>>

\* if inputn.strip():
validate(inputn) == strip(inputn) # <<>>

\* the if prediction[0] == 1 of the result display
shown_verdict(prediction) == IF prediction = 1 THEN "Real" ELSE "Fake"

\* the try block with collect_data moved in front of the model calls
try_block_records_first(form, outcome, t) ==
    LET confidence == confidence_of(outcome)
        metadata == build_metadata(form, t)
        data_entry == collect_data(form.inputn, form.data_source, metadata,
                                   outcome.label, confidence, t)
    IN  IF ~outcome.transform_ok
        THEN [calls |-> << <<"collect_data", data_entry>>, <<"transform", Raised>> >>,
              message |-> "Error during prediction", shown |-> "none",
              entry |-> data_entry, correction |-> PyNone]
        ELSE IF ~outcome.predict_ok
        THEN [calls |-> << <<"collect_data", data_entry>>, <<"transform", <<"ok">> >>,
                           <<"predict", Raised>> >>,
              message |-> "Error during prediction", shown |-> "none",
              entry |-> data_entry, correction |-> PyNone]
        ELSE [calls |-> << <<"collect_data", data_entry>>, <<"transform", <<"ok">> >>,
                           <<"predict", PyInt(outcome.label)>> >>,
              message |-> "The Content is " \o shown_verdict(outcome.label) \o "!",
              shown |-> shown_verdict(outcome.label),
              entry |-> data_entry,
              correction |-> IF outcome.label = 1 THEN PyNone
                             ELSE find_correction(form.inputn)]

\* the try block of the Analyze handler and its except clause
try_block(form, outcome, t) ==
    IF ~outcome.transform_ok
    THEN [calls |-> << <<"transform", Raised>> >>,
          message |-> "Error during prediction", shown |-> "none",
          entry |-> PyNone, correction |-> PyNone]
    ELSE IF ~outcome.predict_ok
    THEN [calls |-> << <<"transform", <<"ok">> >>, <<"predict", Raised>> >>,
          message |-> "Error during prediction", shown |-> "none",
          entry |-> PyNone, correction |-> PyNone]
    ELSE LET confidence == confidence_of(outcome)
             metadata == build_metadata(form, t)
             data_entry == collect_data(form.inputn, form.data_source, metadata,
                                        outcome.label, confidence, t)
         IN  [calls |-> << <<"transform", <<"ok">> >>,
                           <<"predict", PyInt(outcome.label)>>,
                           <<"predict_proba",
                             IF outcome.proba_ok
                             THEN <<"proba", outcome.proba[1], outcome.proba[2]>>
                             ELSE Raised>>,
                           <<"collect_data", data_entry>> >>,
              message |-> "The Content is " \o shown_verdict(outcome.label) \o "!",
              shown |-> shown_verdict(outcome.label),
              entry |-> data_entry,
              correction |-> IF outcome.label = 1 THEN PyNone
                             ELSE find_correction(form.inputn)]

\* the body of the "Analyze Content" button
analyze_button(form, outcome, t) ==
    IF validate(form.inputn)
    THEN try_block(form, outcome, t)
    ELSE [calls |-> <<>>, message |-> "Please enter some text to analyze.",
          shown |-> "none", entry |-> PyNone, correction |-> PyNone]

\* list.append with the new entry put in front
list_prepend(list, entry) == <<entry>> \o list

\* list.append
list_append(list, entry) == Append(list, entry)

----------------------------------------------------------------------------
(* Script runs.  Every interaction reruns the script from the top: the      *)
(* cached load_models call comes first, then the handler of the pressed     *)
(* button.  The runs of different sessions execute in different threads.    *)

NoFile == <<>>

FileNames == 0..strftime(MaxTime)

Init ==
    /\ vectorizer_file \in FileStates
    /\ model_file \in FileStates
    /\ cache = "empty"
    /\ FAKE_NEWS_CORRECTIONS = CorrectionTable
    /\ collected_data = [s \in Sessions |-> <<>>]
    /\ analysis_history = [s \in Sessions |-> <<>>]
    /\ now = 0
    /\ files = [n \in FileNames |-> NoFile]
    /\ pc = [s \in Sessions |-> "idle"]
    /\ filename = [s \in Sessions |-> 0]
    /\ view = [s \in Sessions |-> InitView]
    /\ news_text = <<>>
    /\ correction = PyNone

\* load_models() ends the run with st.stop(): nothing below line 210 executes
RunHalted(s) ==
    /\ pc[s] = "idle"
    /\ cached_load_models = "stop"
    /\ view' = [view EXCEPT ![s] =
                  [InitView EXCEPT !.run = "halted", !.load = "stop", !.load_attempts = 1,
                                   !.message = "Model files not loaded"]]
    /\ UNCHANGED <<vectorizer_file, model_file, cache, FAKE_NEWS_CORRECTIONS,
                   collected_data, analysis_history, now, files, pc, filename,
                   news_text, correction>>

\* a run with the "Analyze Content" button pressed
Analyze(s, form, outcome) ==
    /\ pc[s] = "idle"
    /\ cached_load_models = "ok"
    /\ cache' = "loaded"
    /\ LET r == analyze_button(form, outcome, now)
       IN  /\ r.entry # PyNone => Len(collected_data[s]) < MaxRecords
           /\ collected_data' = [collected_data EXCEPT ![s] =
                  IF r.entry # PyNone THEN list_append(@, r.entry) ELSE @]
           /\ analysis_history' = [analysis_history EXCEPT ![s] =
                  IF r.entry # PyNone THEN list_append(@, r.entry) ELSE @]
           /\ view' = [view EXCEPT ![s] =
                  [run |-> "analyze", load |-> "ok", load_attempts |-> load_attempts,
                   calls |-> r.calls,
                   message |-> r.message, shown |-> r.shown, entry |-> r.entry,
                   correction |-> r.correction, download |-> <<>>]]
    /\ UNCHANGED <<vectorizer_file, model_file, FAKE_NEWS_CORRECTIONS, now, files,
                   pc, filename, news_text, correction>>

\* a run with "Export to JSON" pressed, up to the return of save_collected_data
ExportJsonSave(s) ==
    /\ pc[s] = "idle"
    /\ cached_load_models = "ok"
    /\ cache' = "loaded"
    /\ collected_data[s] # <<>>
    /\ filename' = [filename EXCEPT ![s] = strftime(now)]
    /\ files' = [files EXCEPT ![strftime(now)] = json_dumps(PyList(collected_data[s]))]
    /\ pc' = [pc EXCEPT ![s] = "json_saved"]
    /\ view' = [view EXCEPT ![s] =
                  [InitView EXCEPT !.run = "export_json", !.load = "ok",
                                   !.load_attempts = load_attempts,
                                   !.calls = << <<"save_collected_data", <<"file", strftime(now)>> >> >>]]
    /\ UNCHANGED <<vectorizer_file, model_file, FAKE_NEWS_CORRECTIONS, collected_data,
                   analysis_history, now, news_text, correction>>

\* the rest of that run: the file is opened again and read into the download
ExportJsonRead(s) ==
    /\ pc[s] = "json_saved"
    /\ pc' = [pc EXCEPT ![s] = "idle"]
    /\ view' = [view EXCEPT ![s].download = files[filename[s]],
                            ![s].message = "Data exported"]
    /\ UNCHANGED <<vectorizer_file, model_file, cache, FAKE_NEWS_CORRECTIONS,
                   collected_data, analysis_history, now, files, filename,
                   news_text, correction>>

\* a run with "Export to CSV" pressed
ExportCsv(s) ==
    /\ pc[s] = "idle"
    /\ cached_load_models = "ok"
    /\ cache' = "loaded"
    /\ collected_data[s] # <<>>
    /\ view' = [view EXCEPT ![s] =
                  [InitView EXCEPT !.run = "export_csv", !.load = "ok",
                                   !.load_attempts = load_attempts,
                                   !.download = to_csv(collected_data[s]),
                                   !.message = "CSV ready for download"]]
    /\ UNCHANGED <<vectorizer_file, model_file, FAKE_NEWS_CORRECTIONS, collected_data,
                   analysis_history, now, files, pc, filename, news_text, correction>>

\* a run with "Clear All Collected Data" pressed, and the rerun it asks for
Clear(s) ==
    /\ pc[s] = "idle"
    /\ cached_load_models = "ok"
    /\ cache' = "loaded"
    /\ collected_data[s] # <<>>
    /\ collected_data' = [collected_data EXCEPT ![s] = <<>>]
    /\ analysis_history' = [analysis_history EXCEPT ![s] = <<>>]
    /\ view' = [view EXCEPT ![s] = [InitView EXCEPT !.run = "clear", !.load = "ok",
                                   !.load_attempts = load_attempts]]
    /\ UNCHANGED <<vectorizer_file, model_file, FAKE_NEWS_CORRECTIONS, now, files,
                   pc, filename, news_text, correction>>

\* time passes
Tick ==
    /\ now < MaxTime
    /\ now' = now + 1
    /\ UNCHANGED <<vectorizer_file, model_file, cache, FAKE_NEWS_CORRECTIONS,
                   collected_data, analysis_history, files, pc, filename, view,
                   news_text, correction>>

\* one browser session working through the Detection and Export tabs
Solo == {"s1"}

Next ==
    \/ \E s \in Solo : RunHalted(s)
    \/ \E s \in Solo, form \in Forms, outcome \in Outcomes : Analyze(s, form, outcome)
    \/ \E s \in Solo : ExportCsv(s)
    \/ \E s \in Solo : Clear(s)
    \/ Tick

Spec == Init /\ [][Next]_vars

----------------------------------------------------------------------------
(* Several browser sessions against one server process: one store per       *)
(* session in st.session_state, one working directory for all of them       *)

\* what the user of each session pastes into the text area
SessionForm == [s \in Sessions |-> IF s = "s1" THEN RainForm ELSE FiveGForm]

SessionOutcomes == {outcome \in Outcomes : outcome.proba_ok /\ outcome.label = 0}

InitSessions ==
    /\ Init
    /\ vectorizer_file = "ok"
    /\ model_file = "ok"

NextSessions ==
    \/ \E s \in Sessions, outcome \in SessionOutcomes :
          Analyze(s, SessionForm[s], outcome)
    \/ \E s \in Sessions : ExportJsonSave(s)
    \/ \E s \in Sessions : ExportJsonRead(s)
    \/ \E s \in Sessions : ExportCsv(s)
    \/ \E s \in Sessions : Clear(s)
    \/ Tick

SpecSessions == InitSessions /\ [][NextSessions]_vars

----------------------------------------------------------------------------
(* find_correction called directly on the concatenations of a few fragments *)

Fragments ==
    { CouncilPattern, TynesidePattern, VaccinePattern, FiveGPattern,
      <<"V","A","C","C","I","N","E"," ","C","A","U","S","E","S"," ","A","U","T","I","S","M">>,
      <<"5","G"," ","C","a","u","s","e","s"," ","C","o","r","o","n","a","v","i","r","u","s">>,
      <<"v","a","c","c","i","n","e"," ","c","a","u","s","e","s"," ","a","u","t","i","s">>,
      <<" ","t","o","d","a","y">>,
      <<"\n">> }

RECURSIVE Concatenations(_)
Concatenations(n) ==
    IF n = 0 THEN {<<>>}
    ELSE LET shorter == Concatenations(n - 1)
         IN  shorter \cup {text \o fragment : text \in shorter, fragment \in Fragments}

Pending == <<"pending">>

InitCorrection ==
    /\ vectorizer_file = "ok"
    /\ model_file = "ok"
    /\ cache = "empty"
    /\ FAKE_NEWS_CORRECTIONS = CorrectionTable
    /\ collected_data = [s \in Sessions |-> <<>>]
    /\ analysis_history = [s \in Sessions |-> <<>>]
    /\ now = 0
    /\ files = [n \in FileNames |-> NoFile]
    /\ pc = [s \in Sessions |-> "idle"]
    /\ filename = [s \in Sessions |-> 0]
    /\ view = [s \in Sessions |-> InitView]
    /\ news_text \in Concatenations(MaxPieces)
    /\ correction = Pending

\* correction = find_correction(news_text)
Lookup ==
    /\ correction = Pending
    /\ correction' = find_correction(news_text)
    /\ UNCHANGED <<vectorizer_file, model_file, cache, FAKE_NEWS_CORRECTIONS,
                   collected_data, analysis_history, now, files, pc, filename, view,
                   news_text>>

NextCorrection == Lookup

SpecCorrection == InitCorrection /\ [][NextCorrection]_vars

----------------------------------------------------------------------------
(* Properties *)

Called(v, fn) == \E i \in 1..Len(v.calls) : v.calls[i][1] = fn

ResultOf(v, fn) == v.calls[CHOOSE i \in 1..Len(v.calls) : v.calls[i][1] = fn][2]

Failed(v, fn) == Called(v, fn) /\ ResultOf(v, fn) = Raised

Returned(v, fn) == Called(v, fn) /\ ResultOf(v, fn) # Raised

AnalyzeStep(s) == \E form \in Forms, outcome \in Outcomes : Analyze(s, form, outcome)

Last(list) == list[Len(list)]

Blank(text) == \A i \in 1..Len(text) : text[i] \in Whitespace

\* C1: an analyze run in which transform or predict raises leaves both lists
\* of the session as they were and the session ready for the next run; a list
\* grows only by the one entry of a run in which transform and predict returned.
C1_FailedInferenceStoresNothing ==
    [][\A s \in Sessions :
        /\ (AnalyzeStep(s) /\ (Failed(view'[s], "transform") \/ Failed(view'[s], "predict")))
              => /\ collected_data'[s] = collected_data[s]
                 /\ analysis_history'[s] = analysis_history[s]
                 /\ pc'[s] = "idle"
                 /\ view'[s].message = "Error during prediction"
        /\ (Len(collected_data'[s]) > Len(collected_data[s])
              \/ Len(analysis_history'[s]) > Len(analysis_history[s]))
              => /\ view'[s].run = "analyze"
                 /\ Returned(view'[s], "transform")
                 /\ Returned(view'[s], "predict")
                 /\ collected_data'[s] = Append(collected_data[s], view'[s].entry)
                 /\ analysis_history'[s] = Append(analysis_history[s], view'[s].entry)
      ]_vars

C1_Witness ==
    /\ view["s1"].run = "analyze"
    /\ Failed(view["s1"], "predict")
    /\ Len(collected_data["s1"]) = 1

\* C2: the store is an ordered append-only sequence: a step leaves a session's
\* list alone, appends one entry at its end, or is the clear action, which
\* empties it.
C2_StoreAppendOnly ==
    [][\A s \in Sessions :
        /\ \/ collected_data'[s] = collected_data[s]
           \/ /\ Len(collected_data'[s]) = Len(collected_data[s]) + 1
              /\ SubSeq(collected_data'[s], 1, Len(collected_data[s])) = collected_data[s]
              /\ Last(collected_data'[s]) = view'[s].entry
           \/ Clear(s)
        /\ Clear(s) => collected_data'[s] = <<>> /\ analysis_history'[s] = <<>>
        /\ analysis_history'[s] = collected_data'[s]
      ]_vars

C2_Witness ==
    /\ Len(collected_data["s1"]) = 2
    /\ collected_data["s1"][1] # collected_data["s1"][2]
    /\ view["s1"].entry = collected_data["s1"][2]

OwnRecords(s) == {collected_data[s][i] : i \in 1..Len(collected_data[s])}

ExportedRecords(s) ==
    LET exported == json_loads(view[s].download)[2]
    IN  {exported[i] : i \in 1..Len(exported)}

\* C3: sessions are isolated: a run of one session changes no other session's
\* lists, and what a session's JSON export hands to its user holds records of
\* that session's own store only.
C3_SessionsIsolated ==
    /\ [][\A s \in Sessions :
            (\/ AnalyzeStep(s) \/ ExportJsonSave(s) \/ ExportJsonRead(s)
             \/ ExportCsv(s) \/ Clear(s))
            => \A other \in Sessions \ {s} :
                  /\ collected_data'[other] = collected_data[other]
                  /\ analysis_history'[other] = analysis_history[other]
         ]_vars
    /\ [](\A s \in Sessions :
            (view[s].run = "export_json" /\ view[s].download # <<>>)
            => ExportedRecords(s) \subseteq OwnRecords(s))

\* C4: the JSON of a finished export, parsed back, equals the store of the
\* exporting session field for field and in the same order.
C4_JsonExportRoundTrips ==
    \A s \in Sessions :
        (view[s].run = "export_json" /\ pc[s] = "idle")
        => json_loads(view[s].download) = PyList(collected_data[s])

CsvHeader(csv) == [c \in 1..Len(csv[1]) |-> csv[1][c][2]]

\* C5 as stated: one row per record under the header content_id, source,
\* prediction, timestamp and then the flattened metadata columns.
C5_CsvColumnsAsStated ==
    \A s \in Sessions :
        view[s].run = "export_csv"
        => LET csv == view[s].download
           IN  /\ Len(csv) = Len(collected_data[s]) + 1
               /\ Len(csv[1]) >= 8
               /\ SubSeq(CsvHeader(csv), 1, 8) =
                     <<"content_id", "source", "prediction", "timestamp",
                       "author", "url", "shared_by", "share_count">>

\* C5 amended: one row per record under the header content_id, content, source,
\* timestamp, prediction, confidence, metadata; the metadata dict is written
\* whole into the one metadata column, not flattened.
C5_CsvColumns ==
    \A s \in Sessions :
        view[s].run = "export_csv"
        => LET csv == view[s].download
           IN  /\ Len(csv) = Len(collected_data[s]) + 1
               /\ CsvHeader(csv) = <<"content_id", "content", "source", "timestamp",
                                     "prediction", "confidence", "metadata">>
               /\ \A r \in 1..Len(collected_data[s]) :
                     /\ Len(csv[r + 1]) = 7
                     /\ csv[r + 1][1] = <<"text", Get(collected_data[s][r], "content_id")[2]>>
                     /\ csv[r + 1][5] = <<"text", Get(collected_data[s][r], "prediction")[2]>>
                     /\ csv[r + 1][7] = <<"str()", Get(collected_data[s][r], "metadata")>>

C5_Witness ==
    /\ view["s1"].run = "export_csv"
    /\ Len(collected_data["s1"]) = 2
    /\ Get(collected_data["s1"][1], "metadata") # Get(collected_data["s1"][2], "metadata")

Matching(text) ==
    {k \in 1..Len(CorrectionTable) : Contains(strip(lower(text)), CorrectionTable[k][1])}

\* C6: find_correction returns the correction of the earliest table entry whose
\* pattern is a substring of the lowercased, trimmed input, None when there is
\* no such entry, and leaves the table as it was.
C6_FirstMatchInTableOrder ==
    /\ FAKE_NEWS_CORRECTIONS = CorrectionTable
    /\ correction # Pending
          => IF Matching(news_text) = {}
             THEN correction = PyNone
             ELSE \E k \in Matching(news_text) :
                     /\ \A j \in Matching(news_text) : k <= j
                     /\ correction = CorrectionTable[k][2].correct_news

C6_Witness ==
    /\ correction = VaccineCorrection
    /\ Matching(news_text) = {3, 4}
    /\ ~Contains(news_text, VaccinePattern)
    /\ SubSeq(lower(news_text), 1, Len(FiveGPattern)) = FiveGPattern

\* C7: an analyze run whose text is empty after trimming calls neither
\* transform nor predict, appends nothing and shows the warning.
C7_BlankInputRejected ==
    [][\A s \in Sessions, form \in Forms, outcome \in Outcomes :
        (Analyze(s, form, outcome) /\ Blank(form.inputn))
        => /\ view'[s].calls = <<>>
           /\ view'[s].entry = PyNone
           /\ view'[s].message = "Please enter some text to analyze."
           /\ collected_data'[s] = collected_data[s]
           /\ analysis_history'[s] = analysis_history[s]
      ]_vars

C7_Witness ==
    /\ view["s1"].run = "analyze"
    /\ view["s1"].message = "Please enter some text to analyze."
    /\ Len(collected_data["s1"]) = 1

\* C8: when either model file is missing or does not deserialize, every run
\* stops in load_models after one attempt: no handler runs, nothing is
\* recorded, exported or cleared, and nothing is cached.
C8_LoadFailureHalts ==
    (vectorizer_file # "ok" \/ model_file # "ok")
    => /\ cache = "empty"
       /\ \A n \in FileNames : files[n] = NoFile
       /\ \A s \in Sessions :
             /\ view[s].run \in {"none", "halted"}
             /\ view[s].run = "halted" => view[s].load = "stop" /\ view[s].load_attempts = 1
             /\ view[s].calls = <<>>
             /\ view[s].download = <<>>
             /\ collected_data[s] = <<>>
             /\ analysis_history[s] = <<>>

C8_Witness ==
    /\ vectorizer_file = "ok"
    /\ model_file = "missing"
    /\ view["s1"].run = "halted"

\* C9: a completed analyze run shows Real for label 1 and Fake for label 0, and
\* the prediction of the entry it appended is the verdict it showed.
C9_OneVerdictShownAndStored ==
    \A s \in Sessions :
        (view[s].run = "analyze" /\ Returned(view[s], "predict"))
        => LET label == ResultOf(view[s], "predict")[2]
           IN  /\ view[s].shown \in {"Real", "Fake"}
               /\ label = 1 => view[s].shown = "Real"
               /\ label = 0 => view[s].shown = "Fake"
               /\ view[s].entry # PyNone
               /\ Get(view[s].entry, "prediction") = PyStr(view[s].shown)
               /\ collected_data[s] # <<>>
               /\ Last(collected_data[s]) = view[s].entry

C9_Witness ==
    /\ view["s1"].run = "analyze"
    /\ view["s1"].shown = "Real"
    /\ Len(collected_data["s1"]) = 2
    /\ Get(collected_data["s1"][1], "prediction") = PyStr("Fake")

\* C10: an analyze run in which predict_proba raises still appends exactly one
\* entry, with confidence None, and shows the verdict; when predict_proba
\* returns, the confidence of the entry is the larger probability times 100.
C10_ConfidenceOptional ==
    [][\A s \in Sessions :
        (AnalyzeStep(s) /\ Called(view'[s], "predict_proba"))
        => LET proba == ResultOf(view'[s], "predict_proba")
           IN  /\ collected_data'[s] = Append(collected_data[s], view'[s].entry)
               /\ view'[s].shown \in {"Real", "Fake"}
               /\ proba = Raised => Get(view'[s].entry, "confidence") = PyNone
               /\ proba # Raised =>
                     Get(view'[s].entry, "confidence") =
                        PyFloat((IF proba[2] >= proba[3] THEN proba[2] ELSE proba[3]) * 100,
                                proba[2] + proba[3])
      ]_vars

C10_Witness ==
    /\ view["s1"].run = "analyze"
    /\ Failed(view["s1"], "predict_proba")
    /\ Get(Last(collected_data["s1"]), "confidence") = PyNone
    /\ Len(collected_data["s1"]) = 2
    /\ Get(collected_data["s1"][1], "confidence") = PyFloat(300, 4)

====
